---- MODULE Spec2Model ----
(***************************************************************************)
(* Model of the App component of frontend/src/App.jsx: the React state of  *)
(* the content-automation dashboard (run flag, pending previews, channel   *)
(* records, system statistics), the mount effect that loads the pending    *)
(* previews, and the handlers toggleSystem, approveContent, rejectContent. *)
(*                                                                         *)
(* React state hooks are modelled as React runs them: a handler reads the  *)
(* values captured by the last render and enqueues an update on the hook;  *)
(* the next render processes each hook's queue in order and produces the   *)
(* values the following handlers read.                                     *)
(*                                                                         *)
(* Times of day ('22:00') are pairs <<hour, minute>>; money is counted in  *)
(* cents (245.50 is 24550); a time left of 'N minutes' is the number N.    *)
(***************************************************************************)
EXTENDS Integers, Sequences, FiniteSets

(* ------------------------------ bounds -------------------------------- *)

\* Most approveContent/rejectContent invocations in one behaviour.
MaxCalls == 2

\* Most updates waiting on one state hook between two renders.
MaxQueue == 2

\* Most toggleSystem invocations in one behaviour.
MaxToggles == 3

\* Most quarter-hour steps the modelled wall clock takes after 21:00.
MaxTicks == 6

(* --------------------------- program data ----------------------------- *)

\* The channel records with the id of the AI Chef channel misspelt.
InitialChannelsMisspelt ==
  << [id |-> "horror_stories", platform |-> "TikTok", status |-> "active",
      followers |-> 15420, todayViews |-> 8750, revenue |-> 24550,
      contentGenerated |-> 12, publishedToday |-> 3],
     [id |-> "islamic_stories", platform |-> "TikTok", status |-> "active",
      followers |-> 22100, todayViews |-> 12300, revenue |-> 38075,
      contentGenerated |-> 15, publishedToday |-> 4],
     [id |-> "home_design", platform |-> "YouTube", status |-> "active",
      followers |-> 8900, todayViews |-> 5600, revenue |-> 19525,
      contentGenerated |-> 8, publishedToday |-> 2],
     [id |-> "motivation", platform |-> "TikTok", status |-> "active",
      followers |-> 31500, todayViews |-> 18900, revenue |-> 52080,
      contentGenerated |-> 20, publishedToday |-> 5],
     [id |-> "aichef", platform |-> "YouTube", status |-> "active",
      followers |-> 12750, todayViews |-> 9200, revenue |-> 31040,
      contentGenerated |-> 10, publishedToday |-> 3] >>

\* useState initial value of channels (lines 34-90).
InitialChannels ==
  << [id |-> "horror_stories", platform |-> "TikTok", status |-> "active",
      followers |-> 15420, todayViews |-> 8750, revenue |-> 24550,
      contentGenerated |-> 12, publishedToday |-> 3],
     [id |-> "islamic_stories", platform |-> "TikTok", status |-> "active",
      followers |-> 22100, todayViews |-> 12300, revenue |-> 38075,
      contentGenerated |-> 15, publishedToday |-> 4],
     [id |-> "home_design", platform |-> "YouTube", status |-> "active",
      followers |-> 8900, todayViews |-> 5600, revenue |-> 19525,
      contentGenerated |-> 8, publishedToday |-> 2],
     [id |-> "motivation", platform |-> "TikTok", status |-> "active",
      followers |-> 31500, todayViews |-> 18900, revenue |-> 52080,
      contentGenerated |-> 20, publishedToday |-> 5],
     [id |-> "ai_chef", platform |-> "YouTube", status |-> "active",
      followers |-> 12750, todayViews |-> 9200, revenue |-> 31040,
      contentGenerated |-> 10, publishedToday |-> 3] >>

\* The statistics record with a total left at the value it had before the
\* last channel was added.
InitialSystemStatsStale ==
  [totalViews |-> 45550, totalRevenue |-> 165270, totalFollowers |-> 90670,
   contentGenerated |-> 65, publishedToday |-> 17,
   pendingPreviews |-> 8, scheduledContent |-> 25]

\* useState initial value of systemStats (lines 92-100).
InitialSystemStats ==
  [totalViews |-> 54750, totalRevenue |-> 165270, totalFollowers |-> 90670,
   contentGenerated |-> 65, publishedToday |-> 17,
   pendingPreviews |-> 8, scheduledContent |-> 25]

\* The loaded list with its first two entries in the other order.
InitialPreviewsSwapped ==
  << [id |-> "preview_2", channelId |-> "ai_chef",
      scheduledTime |-> <<22, 15>>, timeLeft |-> 60, mediaType |-> "video"],
     [id |-> "preview_1", channelId |-> "horror_stories",
      scheduledTime |-> <<22, 0>>, timeLeft |-> 45, mediaType |-> "video"],
     [id |-> "preview_3", channelId |-> "motivation",
      scheduledTime |-> <<22, 30>>, timeLeft |-> 75, mediaType |-> "image"] >>

\* The list the mount effect passes to setPendingPreviews (lines 104-132).
InitialPreviews ==
  << [id |-> "preview_1", channelId |-> "horror_stories",
      scheduledTime |-> <<22, 0>>, timeLeft |-> 45, mediaType |-> "video"],
     [id |-> "preview_2", channelId |-> "ai_chef",
      scheduledTime |-> <<22, 15>>, timeLeft |-> 60, mediaType |-> "video"],
     [id |-> "preview_3", channelId |-> "motivation",
      scheduledTime |-> <<22, 30>>, timeLeft |-> 75, mediaType |-> "image"] >>

\* The review window and the publish boundary the page announces
\* ('21:00 - 22:00', 'after 22:00').
ReviewWindowOpen == <<21, 0>>
PublishBoundary == <<22, 0>>

(* ------------------------------ helpers ------------------------------- *)

\* Minutes since midnight of a time of day <<hour, minute>>.
Minutes(t) == t[1] * 60 + t[2]

\* The ids of a list of content items.
Ids(list) == { list[i].id : i \in DOMAIN list }

\* The content items of the program, and the ids a handler may be given:
\* those, and one id that names no content item.
ItemIds == Ids(InitialPreviews)
UnknownIds == { "preview_4" }
ContentIds == ItemIds \cup UnknownIds

\* The filter with its test the wrong way round (=== for !==): it keeps the
\* named item and drops the others.
FilterOutOthers(prev, contentId) ==
  SelectSeq(prev, LAMBDA item : item.id = contentId)

\* prev.filter(item => item.id !== contentId) (lines 140, 146).
FilterOut(prev, contentId) ==
  SelectSeq(prev, LAMBDA item : item.id # contentId)

\* The two kinds of update the code puts on the pendingPreviews hook.
SetUpdate(list) == [kind |-> "set", id |-> "", value |-> list]
FilterUpdate(contentId) == [kind |-> "filter", id |-> contentId, value |-> <<>>]

\* One queued update applied to the hook's state.
ApplyUpdate(prev, u) ==
  IF u.kind = "set" THEN u.value ELSE FilterOut(prev, u.id)

\* A hook's queue processed in order, as a render does.
RECURSIVE Reduce(_, _)
Reduce(prev, queue) ==
  IF queue = <<>> THEN prev
  ELSE Reduce(ApplyUpdate(prev, Head(queue)), Tail(queue))

(* ------------------------------- state -------------------------------- *)

VARIABLES
  isSystemRunning,   \* the run flag as of the last render
  pendingPreviews,   \* the pending list as of the last render
  channels,          \* the channel records
  systemStats,       \* the statistics record
  runQueue,          \* updates waiting on the isSystemRunning hook
  pendQueue,         \* updates waiting on the pendingPreviews hook
  mounted,           \* whether the mount effect has run
  console,           \* the lines written by console.log
  calls,             \* the approve/reject invocations and what they returned
  toggles,           \* the number of toggleSystem invocations so far
  clock              \* the wall clock, in minutes since midnight

vars == << isSystemRunning, pendingPreviews, channels, systemStats,
           runQueue, pendQueue, mounted, console, calls, toggles, clock >>

\* The pending list once the queued updates are processed.
PendingNow == Reduce(pendingPreviews, pendQueue)

\* The loaded list has been rendered.
LoadRendered ==
  mounted /\ \A i \in DOMAIN pendQueue : pendQueue[i].kind # "set"

\* The times at which the page may be opened.
StartTimes == { Minutes(ReviewWindowOpen) + 15 * k : k \in 0..MaxTicks }

Init ==
  /\ isSystemRunning = TRUE
  /\ pendingPreviews = <<>>
  /\ channels = InitialChannels
  /\ systemStats = InitialSystemStats
  /\ runQueue = <<>>
  /\ pendQueue = <<>>
  /\ mounted = FALSE
  /\ console = <<>>
  /\ calls = <<>>
  /\ toggles = 0
  /\ clock \in StartTimes

(* ------------------------------ actions ------------------------------- *)

\* The load effect without its empty dependency list: it runs again after
\* later renders.
MountAfterEveryRender ==
  /\ Len(pendQueue) < MaxQueue
  /\ mounted' = TRUE
  /\ pendQueue' = Append(pendQueue, SetUpdate(InitialPreviews))
  /\ UNCHANGED << isSystemRunning, pendingPreviews, channels, systemStats,
                  runQueue, console, calls, toggles, clock >>

\* useEffect(() => setPendingPreviews([...]), []): runs once, after the
\* first render.
Mount ==
  /\ ~mounted
  /\ Len(pendQueue) < MaxQueue
  /\ mounted' = TRUE
  /\ pendQueue' = Append(pendQueue, SetUpdate(InitialPreviews))
  /\ UNCHANGED << isSystemRunning, pendingPreviews, channels, systemStats,
                  runQueue, console, calls, toggles, clock >>

\* A re-render: every hook processes its queue; the handlers of the new
\* render capture the new values.
Render ==
  /\ runQueue # <<>> \/ pendQueue # <<>>
  /\ pendingPreviews' = Reduce(pendingPreviews, pendQueue)
  /\ isSystemRunning' =
       IF runQueue = <<>> THEN isSystemRunning ELSE runQueue[Len(runQueue)]
  /\ runQueue' = <<>>
  /\ pendQueue' = <<>>
  /\ UNCHANGED << channels, systemStats, mounted, console, calls, toggles,
                  clock >>

\* toggleSystem: setIsSystemRunning(!isSystemRunning), with the value of
\* isSystemRunning the render captured.
ToggleSystem ==
  /\ mounted
  /\ toggles < MaxToggles
  /\ Len(runQueue) < MaxQueue
  /\ runQueue' = Append(runQueue, ~isSystemRunning)
  /\ toggles' = toggles + 1
  /\ UNCHANGED << isSystemRunning, pendingPreviews, channels, systemStats,
                  pendQueue, mounted, console, calls, clock >>

\* approveContent(contentId): enqueue the filter, log, return undefined.
ApproveContent(contentId) ==
  /\ mounted
  /\ Len(calls) < MaxCalls
  /\ Len(pendQueue) < MaxQueue
  /\ pendQueue' = Append(pendQueue, FilterUpdate(contentId))
  /\ console' = Append(console, [msg |-> "Approved content", id |-> contentId])
  /\ calls' = Append(calls, [op |-> "approve", id |-> contentId,
                             result |-> "undefined"])
  /\ UNCHANGED << isSystemRunning, pendingPreviews, channels, systemStats,
                  runQueue, mounted, toggles, clock >>

\* rejectContent(contentId): enqueue the filter, log, return undefined.
RejectContent(contentId) ==
  /\ mounted
  /\ Len(calls) < MaxCalls
  /\ Len(pendQueue) < MaxQueue
  /\ pendQueue' = Append(pendQueue, FilterUpdate(contentId))
  /\ console' = Append(console, [msg |-> "Rejected content", id |-> contentId])
  /\ calls' = Append(calls, [op |-> "reject", id |-> contentId,
                             result |-> "undefined"])
  /\ UNCHANGED << isSystemRunning, pendingPreviews, channels, systemStats,
                  runQueue, mounted, toggles, clock >>

\* The wall clock advances a quarter of an hour; nothing in the component
\* reads it.
Tick ==
  /\ clock < Minutes(ReviewWindowOpen) + 15 * MaxTicks
  /\ clock' = clock + 15
  /\ UNCHANGED << isSystemRunning, pendingPreviews, channels, systemStats,
                  runQueue, pendQueue, mounted, console, calls, toggles >>

Approve == \E contentId \in ContentIds : ApproveContent(contentId)
Reject == \E contentId \in ContentIds : RejectContent(contentId)

Next ==
  \/ Mount
  \/ Render
  \/ ToggleSystem
  \/ Approve
  \/ Reject
  \/ Tick

Spec == Init /\ [][Next]_vars

\* What React and the passage of time guarantee: the mount effect runs,
\* queued updates are rendered, the clock advances.  No human decision is
\* guaranteed.
FairSpec ==
  Spec /\ WF_vars(Mount) /\ WF_vars(Render) /\ WF_vars(Tick)

(* ------------------------ derived observations ------------------------ *)

Last(seq) == seq[Len(seq)]

\* The outcomes console.log has reported for an id.
OutcomesOf(id) ==
  { console[i].msg : i \in { j \in DOMAIN console : console[j].id = id } }

\* The number of approveContent invocations so far.
ApprovedCount ==
  Cardinality({ i \in DOMAIN calls : calls[i].op = "approve" })

\* The sum of a numeric field over a list of records.
RECURSIVE SumOf(_, _)
SumOf(list, field) ==
  IF list = <<>> THEN 0 ELSE Head(list)[field] + SumOf(Tail(list), field)

\* A list of content items is in ascending order of scheduled publish time.
AscendingBySchedule(list) ==
  \A i, j \in DOMAIN list :
    i < j => Minutes(list[i].scheduledTime) <= Minutes(list[j].scheduledTime)

\* The channels a channel id resolves to (channels.find(c => c.id === id)).
ChannelsOf(id) == { i \in DOMAIN channels : channels[i].id = id }

\* The run flag once the queued updates are processed.
RunningNow ==
  IF runQueue = <<>> THEN isSystemRunning ELSE Last(runQueue)

\* The positions of a list whose item is not the one named.
OtherPositions(list, id) == { i \in DOMAIN list : list[i].id # id }

\* after is before with exactly the item named id taken out: every other
\* item is there, with its fields, in the same relative order.
RemovedExactly(before, after, id) ==
  /\ id \notin Ids(after)
  /\ Len(after) = Cardinality(OtherPositions(before, id))
  /\ \A i \in OtherPositions(before, id) :
       after[Cardinality({ j \in OtherPositions(before, id) : j <= i })]
         = before[i]

\* The ids of a list are pairwise distinct.
DistinctIds(list) ==
  \A i, j \in DOMAIN list : i # j => list[i].id # list[j].id

(* ------------------------------- claims ------------------------------- *)

\* C1: for every content item id, reject(id) called right after approve(id)
\* fails with InvalidState and leaves the item's state and the pending list
\* exactly as approve(id) left them.
C1_RejectAfterApproveFails ==
  [][\A id \in ItemIds :
       ( /\ RejectContent(id)
         /\ calls # <<>>
         /\ Last(calls).op = "approve"
         /\ Last(calls).id = id )
       => ( /\ Last(calls').result = "InvalidState"
            /\ PendingNow' = PendingNow
            /\ pendingPreviews' = pendingPreviews )]_vars

\* C2: for every content item, at most one terminal outcome (Approved or
\* Rejected) is ever produced; the first decision wins and every later one
\* on the same item is refused with InvalidState.
C2_AtMostOneOutcome ==
  \A id \in ItemIds :
    /\ Cardinality(OutcomesOf(id)) <= 1
    /\ \A i, j \in DOMAIN calls :
         (i < j /\ calls[i].id = id /\ calls[j].id = id)
           => calls[j].result = "InvalidState"

\* C3: approve(id) or reject(id) with an id that is not in the pending list
\* (already resolved or unknown) fails with InvalidState or NotFound, reports
\* no outcome other than the original decision's, and changes neither the
\* pending list nor any counter.
C3_NotPendingIsRefused ==
  [][\A id \in ContentIds :
       ( /\ ApproveContent(id) \/ RejectContent(id)
         /\ id \notin Ids(PendingNow) )
       => ( /\ Last(calls').result \in { "InvalidState", "NotFound" }
            /\ OutcomesOf(id)' = OutcomesOf(id)
            /\ PendingNow' = PendingNow
            /\ pendingPreviews' = pendingPreviews
            /\ systemStats' = systemStats )]_vars

\* C4: once the list has loaded, a content item that is not in the pending
\* list (it left through approve or reject) is not in it after any further
\* step either: neither in the hook's state nor in the rendered list.
C4_NeverPendingAgain ==
  [][\A id \in ItemIds :
       /\ (mounted /\ id \notin Ids(PendingNow))
            => id \notin Ids(PendingNow')
       /\ (LoadRendered /\ id \notin Ids(pendingPreviews))
            => id \notin Ids(pendingPreviews')]_vars

\* C4 witness: an approved or rejected item has left the rendered list.
C4_Witness ==
  /\ LoadRendered
  /\ pendQueue = <<>>
  /\ \E i \in DOMAIN calls :
       calls[i].id \in ItemIds /\ calls[i].id \notin Ids(pendingPreviews)

\* C5: once the list has loaded and been rendered, the counters of
\* systemStats equal the values recomputed from the content items:
\* pendingPreviews is the number of pending items, and scheduledContent has
\* grown by one for each approval.
C5_StatsMatchItems ==
  (LoadRendered /\ pendQueue = <<>>) =>
    /\ systemStats.pendingPreviews = Len(pendingPreviews)
    /\ systemStats.scheduledContent =
         InitialSystemStats.scheduledContent + ApprovedCount

\* C6: totalViews, totalRevenue (in cents), totalFollowers, contentGenerated
\* and publishedToday of systemStats each equal the sum of todayViews,
\* revenue, followers, contentGenerated and publishedToday over the channels.
C6_StatsAreChannelSums ==
  /\ systemStats.totalViews = SumOf(channels, "todayViews")
  /\ systemStats.totalRevenue = SumOf(channels, "revenue")
  /\ systemStats.totalFollowers = SumOf(channels, "followers")
  /\ systemStats.contentGenerated = SumOf(channels, "contentGenerated")
  /\ systemStats.publishedToday = SumOf(channels, "publishedToday")

\* C6 witness: the sums agree after the list has loaded and a decision has
\* been made and rendered.
C6_Witness ==
  /\ LoadRendered
  /\ pendQueue = <<>>
  /\ calls # <<>>
  /\ systemStats.totalViews = SumOf(channels, "todayViews")
  /\ systemStats.totalRevenue = SumOf(channels, "revenue")

\* C7: from the publish boundary (22:00) on, every item still pending is
\* eventually removed from the pending list, whether or not anyone approves
\* or rejects it.
C7_NeverPendingForever ==
  \A id \in ItemIds :
    (mounted /\ clock >= Minutes(PublishBoundary) /\ id \in Ids(PendingNow))
      ~> (id \notin Ids(PendingNow))

\* C8: the pending list is in ascending order of scheduled publish time, as
\* rendered and as the hook holds it, in every reachable state.
C8_PendingAscending ==
  /\ AscendingBySchedule(pendingPreviews)
  /\ AscendingBySchedule(PendingNow)

\* C8 witness: the middle item has been decided and the two items left are
\* rendered, earliest first.
C8_Witness ==
  /\ LoadRendered
  /\ Len(pendingPreviews) = 2
  /\ pendingPreviews[1].id = "preview_1"
  /\ pendingPreviews[2].id = "preview_3"

\* C9: the channelId of every pending content item resolves to exactly one
\* channel, in every reachable state.
C9_ChannelResolves ==
  \A i \in DOMAIN PendingNow :
    Cardinality(ChannelsOf(PendingNow[i].channelId)) = 1

\* C9 witness: all three loaded items are rendered, each with its channel.
C9_Witness ==
  /\ Len(pendingPreviews) = 3
  /\ \A i \in DOMAIN pendingPreviews :
       ChannelsOf(pendingPreviews[i].channelId) # {}

\* C10: at every moment of the clock, the time left shown for each pending
\* item is its scheduled publish time minus the current time.
C10_TimeLeftIsCurrent ==
  \A i \in DOMAIN pendingPreviews :
    pendingPreviews[i].timeLeft =
      Minutes(pendingPreviews[i].scheduledTime) - clock

\* C11: every toggleSystem invocation flips the run state, so after n
\* invocations the run state is the initial one (running) exactly when n is
\* even, also when invocations are handled before the component re-renders.
C11_ToggleFlipsEveryTime ==
  /\ RunningNow <=> (toggles % 2 = 0)
  /\ runQueue = <<>> => (isSystemRunning <=> (toggles % 2 = 0))

\* C12: approve(id) and reject(id) take exactly the item named id out of the
\* pending list: the other items stay, with their fields and order, the ids
\* stay pairwise distinct, and the channels, the statistics and the run
\* state are unchanged, whether the system is running or paused.
C12_RemovesExactlyTheItem ==
  [][\A id \in ContentIds :
       (ApproveContent(id) \/ RejectContent(id))
       => ( /\ RemovedExactly(PendingNow, PendingNow', id)
            /\ DistinctIds(PendingNow')
            /\ channels' = channels
            /\ systemStats' = systemStats
            /\ isSystemRunning' = isSystemRunning
            /\ RunningNow' = RunningNow )]_vars

\* C12 witness: with the system paused, one of the three loaded items has
\* just been approved or rejected and the two others are what is left.
C12_Witness ==
  /\ ~isSystemRunning
  /\ calls # <<>>
  /\ pendQueue = << FilterUpdate(Last(calls).id) >>
  /\ Len(pendingPreviews) = 3
  /\ Len(PendingNow) = 2
  /\ Ids(PendingNow) = ItemIds \ { Last(calls).id }

====
